---- MODULE Spec2Model ----
(***************************************************************************)
(* Credential resolution of upload_meetings.py and verify_token.py.        *)
(*                                                                         *)
(* One run of one of the two scripts is a behaviour.  The environment of   *)
(* the run (token file, GITHUB_TOKEN, gh session) is chosen in Init and    *)
(* stays fixed; the results of external commands are chosen when the       *)
(* command is run.  Strings are sequences of one-character strings; the    *)
(* character " " stands for every whitespace character.                    *)
(***************************************************************************)
EXTENDS Integers, Sequences, FiniteSets, TLC

VARIABLES
    script,         \* which script runs: "upload" or "verify"
    pc,             \* position in main()
    cliSession,     \* environment: gh already holds an authenticated session
    fileKind,       \* environment: TOKEN_FILE is "absent", "unreadable" or "file"
    fileContent,    \* environment: raw content of TOKEN_FILE
    envSet,         \* environment: GITHUB_TOKEN is set
    envVal,         \* environment: value of GITHUB_TOKEN
    created_file,   \* upload: a meeting summary file was written
    auth_check,     \* upload: return code of `gh auth status`
    token,          \* local variable token of main()
    auth_url,       \* upload: local variable auth_url
    source,         \* branch of the resolution that authenticated the run
    resolveAccess,  \* sources touched by lines 73-107 (upload) or 14-19 (verify)
    retrieveAccess, \* sources touched by lines 109-118 (upload)
    logins,         \* `gh auth login --with-token` runs: input and return code
    ops,            \* git / gh repository commands run, in order
    output,         \* lines written to stdout
    exitCode,       \* process exit status, Running while the process runs
    userResp,       \* verify: what the user-identity check met
    repoResp        \* verify: what the repository check met

vars == <<script, pc, cliSession, fileKind, fileContent, envSet, envVal,
          created_file, auth_check, token, auth_url, source, resolveAccess,
          retrieveAccess, logins, ops, output, exitCode, userResp, repoResp>>

env == <<script, cliSession, fileKind, fileContent, envSet, envVal>>

----------------------------------------------------------------------------
(* Bounds *)

MaxLen == 5
MaxEnvLen == 1

(* Program constants *)

SuffixLen == 4

----------------------------------------------------------------------------
(* Values *)

Chars == {"a", " "}

SeqsUpTo(n) == UNION {[1..k -> Chars] : k \in 0..n}

None == <<"None">>

NotRun == -1

Running == -1

\* variant: the empty string counts as a value
Truthy_EmptyIsValue(t) == t # None

Truthy(t) == t # None /\ t # <<>>

RECURSIVE LStrip(_)
LStrip(s) == IF s # <<>> /\ Head(s) = " " THEN LStrip(Tail(s)) ELSE s

RECURSIVE RStrip(_)
RStrip(s) ==
    IF s # <<>> /\ s[Len(s)] = " " THEN RStrip(SubSeq(s, 1, Len(s) - 1)) ELSE s

Strip(s) == RStrip(LStrip(s))

Last4(t) == SubSeq(t, IF Len(t) > SuffixLen THEN Len(t) - SuffixLen + 1 ELSE 1, Len(t))

AuthUrl(t) == <<"https://soberlevi:">> \o t \o <<"@github.com/soberlevi/claude-code.git">>

\* variant: the environment value is trimmed like the file content
EnvGet_Stripped == IF envSet THEN Strip(envVal) ELSE None

EnvGet == IF envSet THEN envVal ELSE None

IsFile == fileKind # "absent"

Contains(line, s) ==
    \E i \in 1..(Len(line) - Len(s) + 1) : SubSeq(line, i, i + Len(s) - 1) = s

FoundFileLine == <<"Found TOKEN_FILE, attempting to login...">>

FoundEnvLine == <<"Found GITHUB_TOKEN environment variable, attempting to login...">>

ReadErrorLine == <<"Error reading token file: ">>

NoCredentialLine ==
    <<"Error: Please login using 'gh auth login' or create a TOKEN_FILE file">>

Emit(lines) == output' = output \cup lines

Exit(code) == pc' = "exit" /\ exitCode' = code

----------------------------------------------------------------------------
Init ==
    /\ script \in {"upload", "verify"}
    /\ pc = "start"
    /\ cliSession \in (IF script = "upload" THEN BOOLEAN ELSE {FALSE})
    /\ fileKind \in {"absent", "unreadable", "file"}
    /\ fileContent \in (IF fileKind = "file" THEN SeqsUpTo(MaxLen) ELSE {<<>>})
    /\ envSet \in BOOLEAN
    /\ envVal \in (IF envSet THEN SeqsUpTo(MaxEnvLen) ELSE {<<>>})
    /\ created_file = FALSE
    /\ auth_check = NotRun
    /\ token = None
    /\ auth_url = None
    /\ source = "none"
    /\ resolveAccess = {}
    /\ retrieveAccess = {}
    /\ logins = <<>>
    /\ ops = <<>>
    /\ output = {}
    /\ exitCode = Running
    /\ userResp = "none"
    /\ repoResp = "none"

----------------------------------------------------------------------------
(* upload_meetings.py *)

WriteContent ==
    /\ script = "upload" /\ pc = "start"
    /\ \E r \in {"no_content", "written", "error"} :
        /\ created_file' = (r = "written")
        /\ CASE r = "no_content" -> pc' = "check_tools" /\ UNCHANGED <<output, exitCode>>
             [] r = "written" ->
                    /\ pc' = "check_tools"
                    /\ Emit({<<"Created meeting summary file: ">>})
                    /\ UNCHANGED exitCode
             [] r = "error" ->
                    /\ Emit({<<"Error writing content to file: ">>})
                    /\ Exit(1)
    /\ UNCHANGED <<env, auth_check, token, auth_url, source, resolveAccess,
                   retrieveAccess, logins, ops, userResp, repoResp>>

check_command_exists ==
    /\ script = "upload" /\ pc = "check_tools"
    /\ \E gh \in BOOLEAN, git \in BOOLEAN :
        IF ~gh THEN Emit({<<"Error: gh is not installed.">>}) /\ Exit(1)
        ELSE IF ~git THEN Emit({<<"Error: git is not installed.">>}) /\ Exit(1)
        ELSE pc' = "auth_check" /\ UNCHANGED <<output, exitCode>>
    /\ UNCHANGED <<env, created_file, auth_check, token, auth_url, source,
                   resolveAccess, retrieveAccess, logins, ops, userResp, repoResp>>

AuthCheck ==
    /\ script = "upload" /\ pc = "auth_check"
    /\ Emit({<<"Checking GitHub authentication status...">>})
    /\ auth_check' = (IF cliSession THEN 0 ELSE 1)
    /\ pc' = "resolve"
    /\ UNCHANGED <<env, created_file, token, auth_url, source, resolveAccess,
                   retrieveAccess, logins, ops, exitCode, userResp, repoResp>>

\* variant: the result of `gh auth status` is ignored
NotLoggedIn_Always == TRUE

NotLoggedIn == auth_check # 0

ResolveCliSession ==
    /\ script = "upload" /\ pc = "resolve"
    /\ ~NotLoggedIn
    /\ source' = "cli_session"
    /\ pc' = "retrieve"
    /\ UNCHANGED <<env, created_file, auth_check, token, auth_url, resolveAccess,
                   retrieveAccess, logins, ops, output, exitCode, userResp, repoResp>>

\* variant: the content is used without .strip()
ReadTokenFile_Raw == fileContent

ReadTokenFile == Strip(fileContent)

\* `gh auth login --with-token` returned 0
LoginSucceeded(src, found) ==
    /\ Emit({<<"Not logged in to GitHub CLI.">>, found,
             <<"Successfully logged in with token.">>})
    /\ source' = src
    /\ pc' = "retrieve"
    /\ UNCHANGED exitCode

\* `gh auth login --with-token` returned non-zero
LoginFailed(found, failed) ==
    /\ Emit({<<"Not logged in to GitHub CLI.">>, found, failed})
    /\ Exit(1)
    /\ UNCHANGED source

TokenFileLogin ==
    /\ script = "upload" /\ pc = "resolve"
    /\ NotLoggedIn
    /\ IsFile /\ fileKind = "file"
    /\ resolveAccess' = resolveAccess \cup {"isfile", "open"}
    /\ token' = ReadTokenFile
    /\ \E rc \in {0, 1} :
        /\ logins' = Append(logins, [input |-> token', rc |-> rc])
        /\ IF rc = 0
           THEN LoginSucceeded("token_file", FoundFileLine)
           ELSE LoginFailed(FoundFileLine, <<"Failed to login with token from TOKEN_FILE.">>)
    /\ UNCHANGED <<env, created_file, auth_check, auth_url, retrieveAccess, ops,
                   userResp, repoResp>>

\* variant: the read error is swallowed, as in the best-effort retrieval
TokenFileReadError_Pass ==
    /\ script = "upload" /\ pc = "resolve"
    /\ NotLoggedIn
    /\ IsFile /\ fileKind = "unreadable"
    /\ resolveAccess' = resolveAccess \cup {"isfile", "open"}
    /\ Emit({<<"Not logged in to GitHub CLI.">>, FoundFileLine})
    /\ pc' = "retrieve"
    /\ UNCHANGED <<env, created_file, auth_check, token, auth_url, source, exitCode,
                   retrieveAccess, logins, ops, userResp, repoResp>>

TokenFileReadError ==
    /\ script = "upload" /\ pc = "resolve"
    /\ NotLoggedIn
    /\ IsFile /\ fileKind = "unreadable"
    /\ resolveAccess' = resolveAccess \cup {"isfile", "open"}
    /\ Emit({<<"Not logged in to GitHub CLI.">>, FoundFileLine, ReadErrorLine})
    /\ Exit(1)
    /\ UNCHANGED <<env, created_file, auth_check, token, auth_url, source,
                   retrieveAccess, logins, ops, userResp, repoResp>>

EnvLogin ==
    /\ script = "upload" /\ pc = "resolve"
    /\ NotLoggedIn
    /\ ~IsFile /\ Truthy(EnvGet)
    /\ resolveAccess' = resolveAccess \cup {"isfile", "environ"}
    /\ token' = EnvGet
    /\ \E rc \in {0, 1} :
        /\ logins' = Append(logins, [input |-> token', rc |-> rc])
        /\ IF rc = 0
           THEN LoginSucceeded("environment_variable", FoundEnvLine)
           ELSE LoginFailed(FoundEnvLine, <<"Failed to login with GITHUB_TOKEN.">>)
    /\ UNCHANGED <<env, created_file, auth_check, auth_url, retrieveAccess, ops,
                   userResp, repoResp>>

NoCredentialFound ==
    /\ script = "upload" /\ pc = "resolve"
    /\ NotLoggedIn
    /\ ~IsFile /\ ~Truthy(EnvGet)
    /\ resolveAccess' = resolveAccess \cup {"isfile", "environ"}
    /\ Emit({<<"Not logged in to GitHub CLI.">>, NoCredentialLine})
    /\ Exit(1)
    /\ UNCHANGED <<env, created_file, auth_check, token, auth_url, source,
                   retrieveAccess, logins, ops, userResp, repoResp>>

BestEffortFile ==
    IF ~Truthy(token) /\ IsFile /\ fileKind = "file" THEN ReadTokenFile ELSE token

\* variant: the environment variable wins over the token already held
BestEffortToken_EnvFirst == IF Truthy(EnvGet) THEN EnvGet ELSE BestEffortFile

BestEffortToken ==
    IF ~Truthy(BestEffortFile) /\ Truthy(EnvGet) THEN EnvGet ELSE BestEffortFile

RetrieveToken ==
    /\ script = "upload" /\ pc = "retrieve"
    /\ retrieveAccess' =
          retrieveAccess
          \cup (IF ~Truthy(token) THEN {"isfile"} ELSE {})
          \cup (IF ~Truthy(token) /\ IsFile THEN {"open"} ELSE {})
          \cup (IF ~Truthy(BestEffortFile) THEN {"environ"} ELSE {})
    /\ token' = BestEffortToken
    /\ pc' = "build_url"
    /\ UNCHANGED <<env, created_file, auth_check, auth_url, source, resolveAccess,
                   logins, ops, output, exitCode, userResp, repoResp>>

TokenSuffixLine == <<"Using authenticated URL with token ending in ...">> \o Last4(token)

BuildUrl ==
    /\ script = "upload" /\ pc = "build_url"
    /\ IF Truthy(token)
       THEN auth_url' = AuthUrl(token) /\ Emit({TokenSuffixLine})
       ELSE /\ auth_url' = None
            /\ Emit({<<"Warning: Could not retrieve raw token.">>})
    /\ pc' = "git_init"
    /\ UNCHANGED <<env, created_file, auth_check, token, source, resolveAccess,
                   retrieveAccess, logins, ops, exitCode, userResp, repoResp>>

Cmd(c) == [cmd |-> c, url |-> None]

CmdUrl(c, u) == [cmd |-> c, url |-> u]

\* run_command(command) with check=True whose command fails
CommandFailed(done, c) ==
    /\ ops' = ops \o done \o <<Cmd(c)>>
    /\ Emit({<<"Error running command: ", c>>, <<"Stderr: ">>})
    /\ Exit(1)

GitInit ==
    /\ script = "upload" /\ pc = "git_init"
    /\ \E r \in {"has_git_dir", "initialised", "init_fails", "branch_fails"} :
        CASE r = "has_git_dir" -> pc' = "repo_check" /\ UNCHANGED <<ops, output, exitCode>>
          [] r = "initialised" ->
                /\ ops' = ops \o <<Cmd("git init"), Cmd("git branch -M")>>
                /\ Emit({<<"Initializing git repository...">>})
                /\ pc' = "repo_check"
                /\ UNCHANGED exitCode
          [] r = "init_fails" -> CommandFailed(<<>>, "git init")
          [] r = "branch_fails" -> CommandFailed(<<Cmd("git init")>>, "git branch -M")
    /\ UNCHANGED <<env, created_file, auth_check, token, auth_url, source,
                   resolveAccess, retrieveAccess, logins, userResp, repoResp>>

RepoSetup ==
    /\ script = "upload" /\ pc = "repo_check"
    /\ \E exists \in BOOLEAN, hasOrigin \in BOOLEAN, ok \in BOOLEAN :
        LET view == <<Cmd("gh repo view")>>
            step == IF ~exists THEN "gh repo create"
                    ELSE IF hasOrigin THEN "git remote set-url" ELSE "git remote add"
            done == IF exists THEN view \o <<Cmd("git remote")>> ELSE view
        IN  /\ ~exists => ~hasOrigin
            /\ IF ok
               THEN /\ ops' = ops \o done \o <<Cmd(step)>>
                    /\ Emit({<<"Checking if repository exists...">>})
                    /\ pc' = "pull"
                    /\ UNCHANGED exitCode
               ELSE CommandFailed(done, step)
    /\ UNCHANGED <<env, created_file, auth_check, token, auth_url, source,
                   resolveAccess, retrieveAccess, logins, userResp, repoResp>>

\* the remote argument of git pull / git push
Remote == IF auth_url # None THEN auth_url ELSE <<"origin">>

\* what git may write to stderr when the transport fails: with or without
\* the remote it was given
GitStderr == {<<"fatal: ">>, <<"fatal: unable to access '">> \o Remote \o <<"'">>}

Pull ==
    /\ script = "upload" /\ pc = "pull"
    /\ ops' = ops \o <<Cmd("git config credential.helper"), CmdUrl("git pull", Remote)>>
    /\ \/ Emit({<<"Pulling latest changes...">>, <<"Pull completed (success or no changes).">>})
       \/ \E err \in GitStderr :
            Emit({<<"Pulling latest changes...">>, <<"Pull warning/error: ">> \o err,
                  <<"Pull stdout: ">>})
       \/ Emit({<<"Pulling latest changes...">>, <<"Pull failed: ">>})
    /\ pc' = "add"
    /\ UNCHANGED <<env, created_file, auth_check, token, auth_url, source,
                   resolveAccess, retrieveAccess, logins, exitCode, userResp, repoResp>>

AddFiles ==
    /\ script = "upload" /\ pc = "add"
    /\ \E r \in {"add_fails", "no_changes", "changes"} :
        CASE r = "add_fails" -> CommandFailed(<<>>, "git add")
          [] r = "no_changes" ->
                /\ ops' = ops \o <<Cmd("git add"), Cmd("git diff-index")>>
                /\ Emit({<<"Adding files...">>, <<"No changes to commit.">>})
                /\ Exit(0)
          [] r = "changes" ->
                /\ ops' = ops \o <<Cmd("git add"), Cmd("git diff-index")>>
                /\ Emit({<<"Adding files...">>})
                /\ pc' = "commit"
                /\ UNCHANGED exitCode
    /\ UNCHANGED <<env, created_file, auth_check, token, auth_url, source,
                   resolveAccess, retrieveAccess, logins, userResp, repoResp>>

Commit ==
    /\ script = "upload" /\ pc = "commit"
    /\ \/ /\ ops' = Append(ops, Cmd("git commit"))
          /\ Emit({<<"Committing changes...">>})
          /\ pc' = "push"
          /\ UNCHANGED exitCode
       \/ CommandFailed(<<>>, "git commit")
    /\ UNCHANGED <<env, created_file, auth_check, token, auth_url, source,
                   resolveAccess, retrieveAccess, logins, userResp, repoResp>>

Push ==
    /\ script = "upload" /\ pc = "push"
    /\ ops' = Append(ops, CmdUrl("git push", Remote))
    /\ \/ /\ Emit({<<"Pushing to GitHub...">>, <<"Done!">>,
                   IF created_file
                   THEN <<"Successfully uploaded meeting summary to: ">>
                   ELSE <<"Successfully uploaded files to: ">>})
          /\ Exit(0)
       \/ \E err \in GitStderr :
            /\ Emit({<<"Pushing to GitHub...">>, <<"Error pushing to GitHub: ">> \o err})
            /\ Exit(1)
    /\ UNCHANGED <<env, created_file, auth_check, token, auth_url, source,
                   resolveAccess, retrieveAccess, logins, userResp, repoResp>>

----------------------------------------------------------------------------
(* verify_token.py *)

VerifyToken ==
    IF IsFile THEN ReadTokenFile
    ELSE IF Truthy(EnvGet) THEN EnvGet ELSE None

FindToken ==
    /\ script = "verify" /\ pc = "start"
    /\ resolveAccess' = resolveAccess \cup {"isfile"}
                        \cup (IF IsFile THEN {"open"} ELSE {"environ"})
    /\ IF fileKind = "unreadable"
       THEN \* open() raises and nothing catches it
            /\ Emit({<<"Traceback (most recent call last):">>})
            /\ Exit(1)
            /\ UNCHANGED token
       ELSE /\ token' = VerifyToken
            /\ IF ~Truthy(token')
               THEN /\ Emit({<<"Error: No token found in TOKEN_FILE or GITHUB_TOKEN env var.">>})
                    /\ Exit(1)
               ELSE /\ Emit({<<"Token found (length: )">>, <<"Type: ">>})
                    /\ pc' = "check_user"
                    /\ UNCHANGED exitCode
    /\ UNCHANGED <<env, created_file, auth_check, auth_url, source, retrieveAccess,
                   logins, ops, userResp, repoResp>>

\* variant: the exception of the user-identity check ends the process
UserCheckError_Fatal ==
    /\ Emit({<<"--- Checking User Identity ---">>, <<"Error checking user: ">>})
    /\ Exit(1)

\* the except clause of the user-identity check
UserCheckError ==
    /\ Emit({<<"--- Checking User Identity ---">>, <<"Error checking user: ">>})
    /\ pc' = "check_repo"
    /\ UNCHANGED exitCode

CheckUser ==
    /\ script = "verify" /\ pc = "check_user"
    /\ \E r \in {"raise", "login", "nologin"} :
        /\ userResp' = r
        /\ CASE r = "raise" -> UserCheckError
             [] r = "login" ->
                    /\ Emit({<<"--- Checking User Identity ---">>, <<"Headers check:">>,
                             <<"Authenticated as: ">>})
                    /\ pc' = "check_repo"
                    /\ UNCHANGED exitCode
             [] r = "nologin" ->
                    /\ Emit({<<"--- Checking User Identity ---">>, <<"Headers check:">>,
                             <<"Authentication Failed!">>, <<"Response: ">>})
                    /\ Exit(1)
    /\ UNCHANGED <<env, created_file, auth_check, token, auth_url, source,
                   resolveAccess, retrieveAccess, logins, ops, repoResp>>

CheckRepo ==
    /\ script = "verify" /\ pc = "check_repo"
    /\ \E r \in {"raise", "permissions", "message", "other"} :
        /\ repoResp' = r
        /\ Emit({<<"--- Checking Permissions ---">>}
                \cup (CASE r = "raise" -> {<<"Error checking repo: ">>}
                        [] r = "permissions" -> {<<"API Reported User Permissions: ">>}
                        [] r = "message" -> {<<"Error accessing repo: ">>}
                        [] r = "other" -> {}))
    /\ Exit(0)
    /\ UNCHANGED <<env, created_file, auth_check, token, auth_url, source,
                   resolveAccess, retrieveAccess, logins, ops, userResp>>

----------------------------------------------------------------------------
Next ==
    \/ WriteContent
    \/ check_command_exists
    \/ AuthCheck
    \/ ResolveCliSession
    \/ TokenFileLogin
    \/ TokenFileReadError
    \/ EnvLogin
    \/ NoCredentialFound
    \/ RetrieveToken
    \/ BuildUrl
    \/ GitInit
    \/ RepoSetup
    \/ Pull
    \/ AddFiles
    \/ Commit
    \/ Push
    \/ FindToken
    \/ CheckUser
    \/ CheckRepo

Spec == Init /\ [][Next]_vars

----------------------------------------------------------------------------
(* Properties *)

Upload == script = "upload"

\* the resolution (lines 73-107) has run
Resolved == Upload /\ auth_check # NotRun /\ pc # "resolve"

AfterRetrieve == {"build_url", "git_init", "repo_check", "pull", "add", "commit", "push"}

FileSecret == Strip(fileContent)

EnvHasValue == envSet /\ envVal # <<>>

FatalExit == pc = "exit" /\ exitCode = 1

Validated(t) == \E i \in DOMAIN logins : logins[i].input = t /\ logins[i].rc = 0

\* the value of token is embedded in the remote of a git pull or git push
UsedForNetwork ==
    \E i \in DOMAIN ops :
        /\ ops[i].cmd \in {"git pull", "git push"}
        /\ token # None
        /\ ops[i].url = AuthUrl(token)

\* C1: when `gh auth status` reports authenticated, the resolution touches
\* neither the token file nor the environment variable, attempts no login,
\* holds no secret, and ends authenticated with source cli_session.
C1_CliSessionReadsNothing ==
    (Upload /\ auth_check = 0) =>
        /\ resolveAccess = {}
        /\ logins = <<>>
        /\ pc # "resolve" => source = "cli_session"
        /\ pc = "retrieve" => token = None /\ exitCode = Running

C1_Witness ==
    /\ Upload /\ auth_check = 0 /\ pc = "retrieve"
    /\ fileKind = "file" /\ FileSecret # <<>> /\ EnvHasValue

\* C2: with no CLI session and a token file holding a non-empty secret, the
\* run makes exactly one login attempt, its input is the trimmed file
\* content, the environment variable is never consulted, and a failed login
\* ends the run with exit status 1 before any repository command.
C2_TokenFileLoginOnce ==
    (Resolved /\ auth_check = 1 /\ fileKind = "file" /\ FileSecret # <<>>) =>
        /\ Len(logins) = 1
        /\ logins[1].input = FileSecret
        /\ "environ" \notin (resolveAccess \cup retrieveAccess)
        /\ logins[1].rc = 0 => source = "token_file"
        /\ logins[1].rc # 0 => FatalExit /\ ops = <<>> /\ source = "none"

C2_Witness ==
    /\ Resolved /\ auth_check = 1 /\ fileKind = "file"
    /\ FileSecret # <<>> /\ FileSecret # fileContent /\ EnvHasValue
    /\ Len(logins) = 1 /\ logins[1].rc = 1 /\ FatalExit

\* C3: with no CLI session, no token file and a non-empty GITHUB_TOKEN, the
\* one login attempt has the variable's value as input; on success the run
\* is authenticated with source environment_variable and holds that value,
\* on failure it ends with exit status 1.
C3_EnvLogin ==
    (Resolved /\ auth_check = 1 /\ fileKind = "absent" /\ EnvHasValue) =>
        /\ Len(logins) = 1
        /\ logins[1].input = envVal
        /\ logins[1].rc = 0 => source = "environment_variable" /\ token = envVal
        /\ logins[1].rc # 0 => FatalExit /\ ops = <<>> /\ source = "none"

C3_Witness ==
    /\ Resolved /\ auth_check = 1 /\ fileKind = "absent" /\ EnvHasValue
    /\ pc = "build_url" /\ source = "environment_variable" /\ token = envVal

\* C4: with no CLI session, no token file and no (or an empty) GITHUB_TOKEN
\* the run ends at once with exit status 1 and the NoCredentialFound
\* message, without a login attempt and without any git or gh repository
\* command.
C4_NoCredentialFound ==
    (Resolved /\ auth_check = 1 /\ fileKind = "absent" /\ ~EnvHasValue) =>
        /\ FatalExit
        /\ NoCredentialLine \in output
        /\ logins = <<>>
        /\ ops = <<>>
        /\ source = "none"

C4_Witness ==
    /\ Resolved /\ auth_check = 1 /\ fileKind = "absent" /\ envSet /\ envVal = <<>>
    /\ FatalExit

\* C5: the best-effort retrieval leaves in token the token-file secret when
\* the file holds one, else the environment variable's value when it holds
\* one, else nothing, whether or not a CLI session existed; it attempts no
\* login, and the token is not changed afterwards.
C5_BestEffortRetrieval ==
    [][(Upload /\ pc \in {"retrieve"} \cup AfterRetrieve) =>
          /\ pc = "retrieve" => logins' = logins
          /\ IF fileKind = "file" /\ FileSecret # <<>> THEN token' = FileSecret
             ELSE IF EnvHasValue THEN token' = envVal
             ELSE token' \in {None, <<>>}]_vars

C5_Witness ==
    /\ Upload /\ pc = "build_url" /\ ~cliSession
    /\ fileKind = "file" /\ FileSecret # <<>> /\ EnvHasValue /\ envVal # FileSecret
    /\ token = FileSecret

C7_NoFullCredential ==
    Truthy(token) => \A line \in output : ~Contains(line, token)

\* C8 as claimed: with no CLI session, a token file that cannot be read is
\* treated as absent: the resolution goes on to the environment variable.
C8_Original ==
    (Resolved /\ auth_check = 1 /\ fileKind = "unreadable") =>
        /\ EnvHasValue => Len(logins) = 1 /\ logins[1].input = envVal
        /\ ~EnvHasValue => NoCredentialLine \in output

\* C8: with no CLI session, a token file that cannot be read ends the run
\* with exit status 1, with no login attempt and without consulting the
\* environment variable; the read error is treated as "source absent" only
\* by the best-effort retrieval after a CLI session.  On the token-file
\* path the resolution fails exactly when the read failed or the login
\* with the value read failed.
C8_ReadErrorFatal ==
    /\ (Resolved /\ auth_check = 1 /\ fileKind = "unreadable") =>
          /\ FatalExit
          /\ ReadErrorLine \in output
          /\ logins = <<>>
          /\ ops = <<>>
          /\ "environ" \notin resolveAccess
    /\ (Upload /\ auth_check = 0 /\ fileKind = "unreadable" /\ pc \in AfterRetrieve) =>
          token = (IF EnvHasValue THEN envVal ELSE None)
    /\ (Resolved /\ auth_check = 1 /\ IsFile) =>
          ((source = "none" /\ FatalExit)
             <=> (fileKind = "unreadable" \/ (logins # <<>> /\ logins[1].rc # 0)))

C8_Witness ==
    /\ Resolved /\ auth_check = 1 /\ fileKind = "unreadable" /\ EnvHasValue
    /\ FatalExit /\ ReadErrorLine \in output

\* C9 as claimed: once a token is found, verify_token never exits fatally
\* and always runs the repository check.
C9_Original ==
    (script = "verify" /\ Truthy(token) /\ pc = "exit") =>
        exitCode = 0 /\ repoResp # "none"

\* C9: an exception in the user-identity check (command or JSON error) is
\* reported and the repository check runs; an error in the repository check
\* is reported and the process ends with status 0.  A parsed response
\* without a login field ends the process with status 1 before the
\* repository check.
C9_UserCheckErrors ==
    (script = "verify" /\ userResp # "none") =>
        /\ userResp \in {"raise", "login"} =>
              /\ pc \in {"check_repo", "exit"}
              /\ pc = "exit" => exitCode = 0 /\ repoResp # "none"
              /\ pc = "check_repo" => exitCode = Running
        /\ userResp = "nologin" => FatalExit /\ repoResp = "none"

C9_Witness ==
    /\ script = "verify" /\ userResp = "raise" /\ repoResp = "raise"
    /\ pc = "exit" /\ exitCode = 0

\* C10: a token file that is empty or holds only whitespace is
\* treated like an absent one, by the resolution of upload_meetings and by
\* verify_token.
C10_EmptyFileAsAbsent ==
    /\ (Resolved /\ auth_check = 1 /\ fileKind = "file" /\ FileSecret = <<>>) =>
          /\ \A i \in DOMAIN logins : logins[i].input # <<>>
          /\ EnvHasValue => Len(logins) = 1 /\ logins[1].input = envVal
          /\ ~EnvHasValue => logins = <<>> /\ NoCredentialLine \in output
    /\ (script = "verify" /\ pc # "start" /\ fileKind = "file" /\ FileSecret = <<>>
          /\ EnvHasValue) =>
          token = envVal

====
